---- MODULE Spec2Model ----
(***************************************************************************)
(* Camoufox profile manager (main_window.py): the profile store (in-memory *)
(* list + profiles.json), the form-driven editor slots of MainWindow, and  *)
(* the CamoufoxWorker thread that holds one browser session.               *)
(*                                                                         *)
(* Text is a sequence of tokens: " " is a run of whitespace, any other     *)
(* token is a group of non-blank characters; "" is <<>>.  A Python/JSON    *)
(* value whose type the code does not fix is a tagged record [t, v].       *)
(* What a slot only displays (status bar, dialogs) is not part of the      *)
(* state.                                                                  *)
(***************************************************************************)
EXTENDS Integers, Sequences, FiniteSets, TLC

\* ------------------------------------------------------------------ bounds
MaxProfiles == 2
MaxThreads == 2

\* ------------------------------------------------------- program constants
DefaultWidth == 1280
DefaultHeight == 800
ChromeW == 2
ChromeH == 88

\* ------------------------------------------------------------ Python values
JStr(s) == [t |-> "str", v |-> s]
JInt(n) == [t |-> "int", v |-> n]
JBool(b) == [t |-> "bool", v |-> b]
JDict(d) == [t |-> "dict", v |-> d]
JNull == [t |-> "null", v |-> <<>>]
EmptyDict == <<>>

\* Python truth value of a value (bool(x), `not x`, `x or y`).
Truthy(j) ==
    CASE j.t = "str" -> j.v # <<>>
      [] j.t = "int" -> j.v # 0
      [] j.t = "bool" -> j.v
      [] j.t = "dict" -> DOMAIN j.v # {}
      [] OTHER -> FALSE

\* d.get(k, dflt)
Get(d, k, dflt) == IF k \in DOMAIN d THEN d[k] ELSE dflt

\* str.strip(): drop the leading and the trailing whitespace.
RECURSIVE LStrip(_)
LStrip(s) == IF s # <<>> /\ Head(s) = " " THEN LStrip(Tail(s)) ELSE s
RECURSIVE RStrip(_)
RStrip(s) ==
    IF s # <<>> /\ s[Len(s)] = " " THEN RStrip(SubSeq(s, 1, Len(s) - 1)) ELSE s
Strip(s) == RStrip(LStrip(s))

\* Decimal digits, as tokens.
Digits == <<"0", "1", "2", "3", "4", "5", "6", "7", "8", "9">>
DigitVal(c) == (CHOOSE i \in 1..Len(Digits) : Digits[i] = c) - 1
IsDigit(c) == \E i \in 1..Len(Digits) : Digits[i] = c

\* str(n) for a natural n: its decimal digits.
RECURSIVE StrOfInt(_)
StrOfInt(n) ==
    IF n < 10 THEN <<Digits[n + 1]>> ELSE StrOfInt(n \div 10) \o <<Digits[(n % 10) + 1]>>

\* The number a non-empty run of digits denotes.
RECURSIVE NumOf(_)
NumOf(s) ==
    IF Len(s) = 1 THEN DigitVal(s[1])
    ELSE 10 * NumOf(SubSeq(s, 1, Len(s) - 1)) + DigitVal(s[Len(s)])

\* int(x): [ok, v]; ok = FALSE is ValueError/TypeError.
IntOf(j) ==
    CASE j.t = "int" -> [ok |-> TRUE, v |-> j.v]
      [] j.t = "bool" -> [ok |-> TRUE, v |-> IF j.v THEN 1 ELSE 0]
      [] j.t = "str" ->
            LET s == Strip(j.v)
                signed == s # <<>> /\ Head(s) \in {"+", "-"}
                ds == IF signed THEN Tail(s) ELSE s
            IN  IF ds # <<>> /\ \A i \in 1..Len(ds) : IsDigit(ds[i])
                THEN [ok |-> TRUE,
                      v |-> IF signed /\ Head(s) = "-" THEN -NumOf(ds) ELSE NumOf(ds)]
                ELSE [ok |-> FALSE, v |-> 0]
      [] OTHER -> [ok |-> FALSE, v |-> 0]

\* os.path.join("C:\\", name)
StorageRoot == <<"C:\\">>
PathJoin(root, name) == root \o name

\* ------------------------------------------------------------- data models
DefaultName == <<"Profile">>

\* ProxyConfig()
DefaultProxy ==
    [host |-> JStr(<<>>), port |-> 0, username |-> JStr(<<>>), password |-> JStr(<<>>)]

\* Profile()
DefaultProfile ==
    [name |-> JStr(DefaultName), viewport_width |-> DefaultWidth,
     viewport_height |-> DefaultHeight, fullscreen |-> FALSE,
     persistent_dir |-> JStr(<<>>), use_geoip |-> FALSE, proxy |-> DefaultProxy]

\* Mutant: None only when both the host and the port are missing.
to_proxy_dict_RequiresBoth(px) ==
    IF ~Truthy(px.host) /\ px.port = 0 THEN JNull
    ELSE JDict([server |-> <<"http://">> \o px.host.v \o <<":">> \o StrOfInt(px.port),
                username |-> px.username.v, password |-> px.password.v])

\* ProxyConfig.to_proxy_dict: JNull stands for None.
to_proxy_dict(px) ==
    IF ~Truthy(px.host) \/ px.port = 0 THEN JNull
    ELSE LET base == [server |-> <<"http://">> \o px.host.v \o <<":">> \o StrOfInt(px.port)]
             withU == IF Truthy(px.username)
                      THEN [k \in DOMAIN base \cup {"username"} |->
                                IF k = "username" THEN px.username.v ELSE base[k]]
                      ELSE base
             withP == IF Truthy(px.password)
                      THEN [k \in DOMAIN withU \cup {"password"} |->
                                IF k = "password" THEN px.password.v ELSE withU[k]]
                      ELSE withU
         IN  JDict(withP)

\* Profile.to_dict: the JSON object of one profile.
to_dict(p) ==
    [name |-> p.name, viewport_width |-> JInt(p.viewport_width),
     viewport_height |-> JInt(p.viewport_height), fullscreen |-> JBool(p.fullscreen),
     persistent_dir |-> p.persistent_dir, use_geoip |-> JBool(p.use_geoip),
     proxy |-> JDict([host |-> p.proxy.host, port |-> JInt(p.proxy.port),
                      username |-> p.proxy.username, password |-> p.proxy.password])]

\* Mutant: the isinstance test is inverted, every proxy is read as {}.
from_dict_DropsProxy(d) ==
    LET name == Get(d, "name", JStr(DefaultName))
        pd0 == Get(d, "persistent_dir", JStr(<<>>))
        w == IntOf(Get(d, "viewport_width", JInt(DefaultWidth)))
        h == IntOf(Get(d, "viewport_height", JInt(DefaultHeight)))
    IN  IF ~((Truthy(pd0) \/ name.t = "str") /\ w.ok /\ h.ok)
        THEN [ok |-> FALSE, val |-> DefaultProfile]
        ELSE [ok |-> TRUE,
              val |-> [name |-> name, viewport_width |-> w.v, viewport_height |-> h.v,
                       fullscreen |-> Truthy(Get(d, "fullscreen", JBool(FALSE))),
                       persistent_dir |-> IF Truthy(pd0) THEN pd0
                                          ELSE JStr(PathJoin(StorageRoot, name.v)),
                       use_geoip |-> Truthy(Get(d, "use_geoip", JBool(FALSE))),
                       proxy |-> DefaultProxy]]

\* Profile.from_dict: [ok, val]; ok = FALSE is an exception raised by a conversion.
from_dict(d) ==
    LET got == Get(d, "proxy", JDict(EmptyDict))
        raw_proxy == IF got.t = "dict" THEN got.v ELSE EmptyDict
        name == Get(d, "name", JStr(DefaultName))
        pd0 == Get(d, "persistent_dir", JStr(<<>>))
        joinOk == Truthy(pd0) \/ name.t = "str"
        persistent_dir == IF Truthy(pd0) THEN pd0
                          ELSE IF name.t = "str" THEN JStr(PathJoin(StorageRoot, name.v))
                          ELSE JNull
        w == IntOf(Get(d, "viewport_width", JInt(DefaultWidth)))
        h == IntOf(Get(d, "viewport_height", JInt(DefaultHeight)))
        port0 == Get(raw_proxy, "port", JInt(0))
        port == IntOf(IF Truthy(port0) THEN port0 ELSE JInt(0))
    IN  IF ~(joinOk /\ w.ok /\ h.ok /\ port.ok) THEN [ok |-> FALSE, val |-> DefaultProfile]
        ELSE [ok |-> TRUE,
              val |-> [name |-> name, viewport_width |-> w.v, viewport_height |-> h.v,
                       fullscreen |-> Truthy(Get(d, "fullscreen", JBool(FALSE))),
                       persistent_dir |-> persistent_dir,
                       use_geoip |-> Truthy(Get(d, "use_geoip", JBool(FALSE))),
                       proxy |-> [host |-> Get(raw_proxy, "host", JStr(<<>>)),
                                  port |-> port.v,
                                  username |-> Get(raw_proxy, "username", JStr(<<>>)),
                                  password |-> Get(raw_proxy, "password", JStr(<<>>))]]]

\* ------------------------------------------------------------- persistence
\* The file profiles.json: absent, or its text.  `valid` says the text is
\* valid JSON and `content` holds the records of its array; a text that
\* is not valid JSON (empty, cut short, garbage) has valid = FALSE and holds
\* the records that are complete in it.
NoFile == [exists |-> FALSE, valid |-> FALSE, content |-> <<>>]

\* Mutant: a text json.load rejects is read as far as it goes.
load_profiles_KeepsGoing(f) ==
    IF ~f.exists THEN [ok |-> TRUE, val |-> <<>>]
    ELSE LET rs == [i \in 1..Len(f.content) |-> from_dict(f.content[i])]
         IN  [ok |-> \A i \in 1..Len(rs) : rs[i].ok,
              val |-> [i \in 1..Len(rs) |-> rs[i].val]]

\* load_profiles: [ok, val]; ok = FALSE is an exception (json.load's
\* JSONDecodeError or one raised by from_dict).
load_profiles(f) ==
    IF ~f.exists THEN [ok |-> TRUE, val |-> <<>>]
    ELSE IF ~f.valid THEN [ok |-> FALSE, val |-> <<>>]
    ELSE LET rs == [i \in 1..Len(f.content) |-> from_dict(f.content[i])]
         IN  [ok |-> \A i \in 1..Len(rs) : rs[i].ok,
              val |-> [i \in 1..Len(rs) |-> rs[i].val]]

\* save_profiles: the file after the write.
save_profiles(ps) ==
    [exists |-> TRUE, valid |-> TRUE, content |-> [i \in 1..Len(ps) |-> to_dict(ps[i])]]

\* ------------------------------------------------------------------- state
VARIABLES
    CAMOUFOX_OK,    \* module flag set by the import at line 11-15
    file,           \* profiles.json
    profiles,       \* MainWindow.profiles
    current_index,  \* MainWindow.current_index (0-based, -1 = none)
    listRow,        \* profileList.currentRow() (0-based, -1 = none)
    form,           \* the editor widgets' values
    uiRunning,      \* _set_running's last argument: Stop enabled, the rest disabled
    worker,         \* MainWindow.worker: the id of the worker it refers to, 0 = None
                    \* (an id is free again once its thread has ended)
    threads,        \* the CamoufoxWorker objects whose thread has not ended, by id
    inbox,          \* signals emitted by worker threads, queued for the UI thread
    call            \* a call of one function of the module on its own, outside
                    \* the window: the function, its argument, its result

vars == <<CAMOUFOX_OK, file, profiles, current_index, listRow, form, uiRunning,
          worker, threads, inbox, call>>

storeVars == <<file, profiles>>
editVars == <<current_index, listRow, form>>
workVars == <<worker, threads, inbox>>

Msg(m, a) == [msg |-> m, arg |-> a]

\* No function is being called on its own.
NoCall == [fn |-> "none", pc |-> "done"]

\* ------------------------------------------------------------ form helpers
\* _populate_form(None)
BlankForm ==
    [nameEdit |-> <<>>, spinW |-> DefaultWidth, spinH |-> DefaultHeight,
     fullscreenCheck |-> FALSE, proxyHostEdit |-> <<>>, proxyPortSpin |-> 0,
     proxyUserEdit |-> <<>>, proxyPassEdit |-> <<>>, geoipCheck |-> FALSE,
     storageEdit |-> <<>>]

None == [some |-> FALSE, val |-> DefaultProfile]
Some(p) == [some |-> TRUE, val |-> p]

\* MainWindow._current
_current(ps, ci) == IF 0 <= ci /\ ci < Len(ps) THEN Some(ps[ci + 1]) ELSE None

\* MainWindow._populate_form
_populate_form(op) ==
    IF ~op.some THEN BlankForm
    ELSE LET p == op.val
         IN  [nameEdit |-> p.name.v, spinW |-> p.viewport_width,
              spinH |-> p.viewport_height, fullscreenCheck |-> p.fullscreen,
              proxyHostEdit |-> p.proxy.host.v, proxyPortSpin |-> p.proxy.port,
              proxyUserEdit |-> p.proxy.username.v, proxyPassEdit |-> p.proxy.password.v,
              geoipCheck |-> p.use_geoip, storageEdit |-> p.persistent_dir.v]

\* MainWindow._gather_form: the profile object it returns (the current one,
\* updated in place, or a fresh Profile()).
_gather_form(ps, ci, f) ==
    LET p == IF _current(ps, ci).some THEN _current(ps, ci).val ELSE DefaultProfile
        name == IF Strip(f.nameEdit) # <<>> THEN Strip(f.nameEdit) ELSE DefaultName
        s == Strip(f.storageEdit)
    IN  [p EXCEPT !.name = JStr(name),
                  !.viewport_width = f.spinW,
                  !.viewport_height = f.spinH,
                  !.fullscreen = f.fullscreenCheck,
                  !.proxy = [host |-> JStr(Strip(f.proxyHostEdit)),
                             port |-> f.proxyPortSpin,
                             username |-> JStr(Strip(f.proxyUserEdit)),
                             password |-> JStr(Strip(f.proxyPassEdit))],
                  !.use_geoip = f.geoipCheck,
                  !.persistent_dir =
                      JStr(IF s = <<>> THEN PathJoin(StorageRoot, name) ELSE s)]

\* The editor state a slot works on: current_index, the list's row, the form.
Edit(ci, row, f) == [ci |-> ci, row |-> row, form |-> f]

\* MainWindow._on_select_profile, run when the list's selection changes while
\* currentRow() answers `row`.
_on_select_profile(ps, e, row) ==
    [e EXCEPT !.ci = row, !.form = _populate_form(_current(ps, row))]

\* MainWindow._refresh_list: clear() drops the selection, which (when there
\* was one) runs _on_select_profile; the toolkit decides whether currentRow()
\* still answers the old row or already -1 at that moment (`seen`).  addItem
\* selects nothing.
_refresh_list(ps, e, seen) ==
    IF e.row = -1 THEN e
    ELSE [_on_select_profile(ps, e, seen) EXCEPT !.row = -1]

\* profileList.setCurrentRow(r): a changed selection runs _on_select_profile.
setCurrentRow(ps, e, r) ==
    IF r = e.row THEN e
    ELSE [_on_select_profile(ps, e, r) EXCEPT !.row = r]

\* What currentRow() may answer inside clear()'s selection-changed signal.
Seen(row) == {row, -1}

\* List assignment profiles[i] = p for a 0-based index i in range.
SetSlot(ps, i, p) == [ps EXCEPT ![i + 1] = p]

\* del profiles[row]
DelSlot(ps, row) == SubSeq(ps, 1, row) \o SubSeq(ps, row + 2, Len(ps))

\* ------------------------------------------------------------------ worker
\* Exceptions the external calls may raise, by the call that raises.
MkdirError == <<"MkdirError">>
InitError == <<"InitError">>
PageError == <<"PageError">>
IdleError == <<"IdleError">>
CloseError == <<"CloseError">>

\* os.path.abspath: a path that starts at a drive root is kept.
Cwd == <<"C:\\", "app", "\\">>
AbsPath(s) == IF s # <<>> /\ Head(s) \in {"C:\\", "D:\\"} THEN s ELSE Cwd \o s

\* CamoufoxWorker.__init__; start() follows at once in _launch.
NewWorker(prof, size) ==
    [profile |-> prof, launch_size |-> size, stop |-> FALSE, ctx |-> FALSE,
     pc |-> "start", opts |-> EmptyDict, log |-> <<>>, faults |-> <<>>,
     initCalls |-> 0, closeCalls |-> 0, exitCalls |-> 0]

\* QThread.isRunning for worker id: from start() until run() has returned and
\* the thread has ended.  `ts` holds the workers whose thread has not ended;
\* nothing reads the fields of a worker once its thread has ended.
isRunning(ts, id) == id \in DOMAIN ts

\* The size run() works with (line 114).
RunSize(w) ==
    IF w.launch_size # <<>> THEN w.launch_size
    ELSE <<w.profile.viewport_width, w.profile.viewport_height>>

\* The options run() passes to Camoufox (lines 114-129); a key the code does
\* not set is JNull.
LaunchOptions(w) ==
    LET W == RunSize(w)[1]
        H == RunSize(w)[2]
        pd == w.profile.persistent_dir
        px == to_proxy_dict(w.profile.proxy)
    IN  [headless |-> FALSE,
         window |-> <<W + ChromeW, H + ChromeH>>,
         persistent_context |-> IF Truthy(pd) THEN JBool(TRUE) ELSE JNull,
         user_data_dir |-> IF Truthy(pd) THEN JStr(AbsPath(pd.v)) ELSE JNull,
         proxy |-> px,
         geoip |-> IF Truthy(px) /\ w.profile.use_geoip THEN JBool(TRUE) ELSE JNull]

Signal(sig, text) == [sig |-> sig, text |-> text]

\* signal.emit from the thread of worker i: recorded in the worker's own log
\* and queued for the UI thread.
Emit(i, w, sig, text) ==
    /\ threads' = [threads EXCEPT ![i] = [w EXCEPT !.log = Append(@, Signal(sig, text))]]
    /\ inbox' = Append(inbox, [from |-> i, sig |-> sig, text |-> text])

StartedText(w) == Msg("Session started for", w.profile.name.v)
StoppedText(w) == Msg("Session stopped for", w.profile.name.v)
\* Mutant: the message leaves the exception out.
StartErrorText_NoText(e) == Msg("Failed to start Camoufox:", <<>>)

StartErrorText(e) == Msg("Failed to start Camoufox:", e)
StopErrorText(e) == Msg("Error while stopping session:", e)
UnavailableText == Msg("Camoufox not available", <<>>)

\* Mutant: the except clause swallows the exception.
Raised_Silent(i, w, e, tag) ==
    /\ threads' = [threads EXCEPT ![i] = [w EXCEPT !.pc = "finally",
                                                   !.faults = Append(@, tag)]]
    /\ UNCHANGED inbox

\* Mutant: the session is closed after the idle loop only, not in a finally
\* clause, so an exception goes straight to the stopped signal.
Raised_NoCleanup(i, w, e, tag) ==
    Emit(i, [w EXCEPT !.pc = "stopping", !.faults = Append(@, tag)],
         "error", StartErrorText(e))

\* The except clause of run() (lines 160-161) after a call raised e.
Raised(i, w, e, tag) ==
    Emit(i, [w EXCEPT !.pc = "finally", !.faults = Append(@, tag)],
         "error", StartErrorText(e))

\* run(), lines 110-131: the availability check, the options, makedirs and
\* the library's initialisation.
RunSetup(i) ==
    /\ i \in DOMAIN threads
    /\ threads[i].pc = "start"
    /\ LET w == threads[i]
           w1 == [w EXCEPT !.opts = LaunchOptions(w)]
       IN  IF ~CAMOUFOX_OK
           THEN Emit(i, [w EXCEPT !.pc = "returned"], "error", UnavailableText)
           ELSE \/ /\ Truthy(w.profile.persistent_dir)
                   /\ Raised(i, w, MkdirError, "mkdir")
                \/ Raised(i, [w1 EXCEPT !.initCalls = @ + 1], InitError, "init")
                \/ /\ threads' = [threads EXCEPT ![i] =
                                    [w1 EXCEPT !.initCalls = @ + 1, !.ctx = TRUE,
                                               !.pc = "pages"]]
                   /\ UNCHANGED inbox
    /\ UNCHANGED <<CAMOUFOX_OK, call, storeVars, editVars, uiRunning, worker>>

\* run(), lines 133-156: the page is found or opened (new_page may raise; the
\* errors of closing extras, of set_viewport_size and of F11 are swallowed),
\* then started_ok is emitted.
RunPages(i) ==
    /\ i \in DOMAIN threads
    /\ threads[i].pc = "pages"
    /\ LET w == threads[i]
       IN  \/ Raised(i, w, PageError, "page")
           \/ Emit(i, [w EXCEPT !.pc = "idle"], "started_ok", StartedText(w))
    /\ UNCHANGED <<CAMOUFOX_OK, call, storeVars, editVars, uiRunning, worker>>

\* Mutant: the loop does not test the flag.
RunIdle_IgnoresStop(i) ==
    /\ i \in DOMAIN threads
    /\ threads[i].pc = "idle"
    /\ UNCHANGED vars

\* run(), lines 157-158: the idle loop leaves when _stop is set (a pass that
\* finds it unset sleeps and changes nothing).
RunIdle(i) ==
    /\ i \in DOMAIN threads
    /\ threads[i].pc = "idle"
    /\ threads[i].stop
    /\ threads' = [threads EXCEPT ![i].pc = "finally"]
    /\ UNCHANGED <<CAMOUFOX_OK, call, storeVars, editVars, uiRunning, worker, inbox>>

\* run(), lines 157-161: an exception raised inside the idle loop.
RunIdleRaise(i) ==
    /\ i \in DOMAIN threads
    /\ threads[i].pc = "idle"
    /\ Raised(i, threads[i], IdleError, "idle")
    /\ UNCHANGED <<CAMOUFOX_OK, call, storeVars, editVars, uiRunning, worker>>

\* Mutant: stopped is emitted inside the try, so a failing close skips it.
RunFinally_StoppedInTry(i) ==
    /\ i \in DOMAIN threads
    /\ threads[i].pc = "finally"
    /\ LET w == threads[i]
           wc == [w EXCEPT !.closeCalls = @ + 1]
       IN  IF ~w.ctx
           THEN /\ threads' = [threads EXCEPT ![i].pc = "stopping"]
                /\ UNCHANGED inbox
           ELSE \/ Emit(i, [wc EXCEPT !.pc = "returned", !.faults = Append(@, "close")],
                        "error", StopErrorText(CloseError))
                \/ /\ threads' = [threads EXCEPT ![i] =
                                    [wc EXCEPT !.pc = "stopping", !.exitCalls = @ + 1]]
                   /\ UNCHANGED inbox
    /\ UNCHANGED <<CAMOUFOX_OK, call, storeVars, editVars, uiRunning, worker>>

\* Mutant: the finally clause swallows the error of close() as well.
RunFinally_SwallowsClose(i) ==
    /\ i \in DOMAIN threads
    /\ threads[i].pc = "finally"
    /\ LET w == threads[i]
           wc == [w EXCEPT !.pc = "stopping", !.closeCalls = @ + 1]
       IN  IF ~w.ctx
           THEN threads' = [threads EXCEPT ![i].pc = "stopping"]
           ELSE \/ threads' = [threads EXCEPT ![i] =
                                 [wc EXCEPT !.faults = Append(@, "close")]]
                \/ threads' = [threads EXCEPT ![i] = [wc EXCEPT !.exitCalls = @ + 1]]
    /\ UNCHANGED <<CAMOUFOX_OK, call, storeVars, editVars, uiRunning, worker, inbox>>

\* run(), lines 162-171: the finally clause up to the stopped signal.
RunFinally(i) ==
    /\ i \in DOMAIN threads
    /\ threads[i].pc = "finally"
    /\ LET w == threads[i]
           wc == [w EXCEPT !.pc = "stopping", !.closeCalls = @ + 1]
       IN  IF ~w.ctx
           THEN /\ threads' = [threads EXCEPT ![i].pc = "stopping"]
                /\ UNCHANGED inbox
           ELSE \/ Emit(i, [wc EXCEPT !.faults = Append(@, "close")],
                        "error", StopErrorText(CloseError))
                \/ /\ threads' = [threads EXCEPT ![i] =
                                    [wc EXCEPT !.exitCalls = @ + 1,
                                               !.faults = Append(@, "exit")]]
                   /\ UNCHANGED inbox
                \/ /\ threads' = [threads EXCEPT ![i] = [wc EXCEPT !.exitCalls = @ + 1]]
                   /\ UNCHANGED inbox
    /\ UNCHANGED <<CAMOUFOX_OK, call, storeVars, editVars, uiRunning, worker>>

\* run(), line 172.
RunEmitStopped(i) ==
    /\ i \in DOMAIN threads
    /\ threads[i].pc = "stopping"
    /\ Emit(i, [threads[i] EXCEPT !.pc = "returned"], "stopped", StoppedText(threads[i]))
    /\ UNCHANGED <<CAMOUFOX_OK, call, storeVars, editVars, uiRunning, worker>>

\* run() has returned: the thread ends and isRunning() turns false.
ThreadFinish(i) ==
    /\ i \in DOMAIN threads
    /\ threads[i].pc = "returned"
    /\ threads' = [j \in DOMAIN threads \ {i} |-> threads[j]]
    /\ UNCHANGED <<CAMOUFOX_OK, call, storeVars, editVars, uiRunning, worker, inbox>>

\* CamoufoxWorker.request_stop
request_stop(w) == [w EXCEPT !.stop = TRUE]

\* The steps run() takes when it is scheduled and the calls it makes return.
WorkerProgress(i) ==
    \/ RunSetup(i)
    \/ RunPages(i)
    \/ RunIdle(i)
    \/ RunFinally(i)
    \/ RunEmitStopped(i)
    \/ ThreadFinish(i)

WorkerStep(i) == WorkerProgress(i) \/ RunIdleRaise(i)

\* --------------------------------------------------------------- UI slots
\* What a slot leaves behind: the list and the editor state.
Outcome(ps, e) == [ps |-> ps, e |-> e]

\* f"Profile {n}"
GeneratedName(n) == DefaultName \o <<" ">> \o StrOfInt(n)

\* MainWindow._new_profile
_new_profile(ps, e, seen) ==
    LET name == GeneratedName(Len(ps) + 1)
        p == [DefaultProfile EXCEPT !.name = JStr(name),
                                    !.persistent_dir = JStr(PathJoin(StorageRoot, name))]
        ps1 == Append(ps, p)
        e1 == _refresh_list(ps1, e, seen)
    IN  Outcome(ps1, setCurrentRow(ps1, e1, Len(ps1) - 1))

\* Mutant: the slot leaves the form and current_index as the refresh left them.
_delete_profile_KeepsIndex(ps, e, seen) ==
    LET ps1 == DelSlot(ps, e.row)
    IN  Outcome(ps1, _refresh_list(ps1, e, seen))

\* Mutant: line 335 is missing, current_index stays what the refresh made it.
_delete_profile_StaleIndex(ps, e, seen) ==
    LET ps1 == DelSlot(ps, e.row)
        e1 == _refresh_list(ps1, e, seen)
    IN  Outcome(ps1, [e1 EXCEPT !.form = _populate_form(None)])

\* MainWindow._delete_profile once the question was answered Yes.
_delete_profile(ps, e, seen) ==
    LET ps1 == DelSlot(ps, e.row)
        e1 == _refresh_list(ps1, e, seen)
    IN  Outcome(ps1, [e1 EXCEPT !.form = _populate_form(None), !.ci = -1])

\* Mutant: the gathered profile is appended instead of stored in its slot.
_save_changes_Appends(ps, e, seen) ==
    LET ps1 == Append(ps, _gather_form(ps, e.ci, e.form))
        e1 == _refresh_list(ps1, e, seen)
    IN  Outcome(ps1, setCurrentRow(ps1, e1, e1.ci))

\* MainWindow._save_changes with a profile selected (lines 342-346).
_save_changes(ps, e, seen) ==
    LET ps1 == SetSlot(ps, e.ci, _gather_form(ps, e.ci, e.form))
        e1 == _refresh_list(ps1, e, seen)
    IN  Outcome(ps1, setCurrentRow(ps1, e1, e1.ci))

\* Mutant: the slot forgets save_profiles.
Commit_NoSave(o) ==
    /\ profiles' = o.ps
    /\ file' = file
    /\ current_index' = o.e.ci
    /\ listRow' = o.e.row
    /\ form' = o.e.form

\* A slot's outcome becomes the state; every one of them saves the list.
Commit(o) ==
    /\ profiles' = o.ps
    /\ file' = save_profiles(o.ps)
    /\ current_index' = o.e.ci
    /\ listRow' = o.e.row
    /\ form' = o.e.form

Editor == Edit(current_index, listRow, form)

\* Mutant: leaving a row stores the form in it.
SelectProfile_AutoSaves(r) ==
    /\ ~uiRunning
    /\ r \in 0..(Len(profiles) - 1)
    /\ r # listRow
    /\ LET ps1 == IF _current(profiles, current_index).some
                  THEN SetSlot(profiles, current_index,
                               _gather_form(profiles, current_index, form))
                  ELSE profiles
           e == setCurrentRow(ps1, Editor, r)
       IN  /\ profiles' = ps1
           /\ file' = save_profiles(ps1)
           /\ current_index' = e.ci
           /\ listRow' = e.row
           /\ form' = e.form
    /\ UNCHANGED <<CAMOUFOX_OK, call, uiRunning, workVars>>

\* The user picks row r of the list (the list is disabled while running).
SelectProfile(r) ==
    /\ ~uiRunning
    /\ r \in 0..(Len(profiles) - 1)
    /\ r # listRow
    /\ LET e == setCurrentRow(profiles, Editor, r)
       IN  /\ current_index' = e.ci
           /\ listRow' = e.row
           /\ form' = e.form
    /\ UNCHANGED <<CAMOUFOX_OK, call, storeVars, uiRunning, workVars>>

\* The user types into the form, or picks a directory in _browse_storage.
EditForm(f) ==
    /\ ~uiRunning
    /\ f # form
    /\ form' = f
    /\ UNCHANGED <<CAMOUFOX_OK, call, storeVars, current_index, listRow, uiRunning,
                   workVars>>

\* Mutant: _set_running leaves the New button enabled.
NewProfile_Unlocked(seen) ==
    /\ Len(profiles) < MaxProfiles
    /\ seen \in Seen(listRow)
    /\ Commit(_new_profile(profiles, Editor, seen))
    /\ UNCHANGED <<CAMOUFOX_OK, call, uiRunning, workVars>>

\* Click on New.
NewProfile(seen) ==
    /\ ~uiRunning
    /\ Len(profiles) < MaxProfiles
    /\ seen \in Seen(listRow)
    /\ Commit(_new_profile(profiles, Editor, seen))
    /\ UNCHANGED <<CAMOUFOX_OK, call, uiRunning, workVars>>

\* Mutant: the slot deletes whatever the answer to the question is.
DeleteProfile_IgnoresAnswer(yes, seen) ==
    /\ ~uiRunning
    /\ seen \in Seen(listRow)
    /\ IF listRow < 0
       THEN UNCHANGED <<storeVars, editVars>>
       ELSE Commit(_delete_profile(profiles, Editor, seen))
    /\ UNCHANGED <<CAMOUFOX_OK, call, uiRunning, workVars>>

\* Click on Delete; `yes` is the answer to the confirmation question.
DeleteProfile(yes, seen) ==
    /\ ~uiRunning
    /\ seen \in Seen(listRow)
    /\ IF listRow < 0 \/ ~yes
       THEN UNCHANGED <<storeVars, editVars>>
       ELSE Commit(_delete_profile(profiles, Editor, seen))
    /\ UNCHANGED <<CAMOUFOX_OK, call, uiRunning, workVars>>

\* Does profiles[current_index] = ... find a slot (a Python index >= -len)?
IndexOk(ps, ci) == -Len(ps) <= ci /\ ci < Len(ps)

\* Click on Save.
SaveChanges(seen) ==
    /\ ~uiRunning
    /\ seen \in Seen(listRow)
    /\ IF current_index = -1
       THEN /\ Len(profiles) < MaxProfiles
            /\ Commit(_new_profile(profiles, Editor, seen))
       ELSE IF IndexOk(profiles, current_index)
       THEN Commit(_save_changes(profiles, Editor, seen))
       ELSE UNCHANGED <<storeVars, editVars>>   \* IndexError
    /\ UNCHANGED <<CAMOUFOX_OK, call, uiRunning, workVars>>

\* self.worker and self.worker.isRunning()
WorkerBusy == worker # 0 /\ isRunning(threads, worker)

\* Mutant: the launch does not look at the running session.
AlreadyRunning_Unchecked == FALSE

\* _launch, line 354: a launch is refused while a session is running.
AlreadyRunning == WorkerBusy

\* Mutant: the viewport is used also for a fullscreen profile.
LaunchSize_IgnoresFullscreen(prof, screen) ==
    <<prof.viewport_width, prof.viewport_height>>

\* _launch, lines 371-376.
LaunchSize(prof, screen) ==
    IF prof.fullscreen THEN screen ELSE <<prof.viewport_width, prof.viewport_height>>

\* The available geometry of the primary screen.
Screens == {<<1920, 1040>>}

\* self.worker = CamoufoxWorker(...); self.worker.start(): one more thread.  A
\* worker the handle referred to before keeps running if its thread has not ended.
Started(ts, id, w) == [j \in DOMAIN ts \cup {id} |-> IF j = id THEN w ELSE ts[j]]

\* Ids for one more worker object: those no running thread holds.
FreeIds(ts) == (1..MaxThreads) \ DOMAIN ts
NewId(ts) == CHOOSE id \in FreeIds(ts) : \A j \in FreeIds(ts) : id <= j

\* Mutant: the test of line 357 is missing, so with nothing selected a fresh
\* Profile() filled from the form is stored at index -1, the last slot.
Launch_NoSelectionCheck(screen) ==
    /\ ~uiRunning
    /\ IF AlreadyRunning
       THEN UNCHANGED <<storeVars, uiRunning, worker, threads>>
       ELSE IF ~IndexOk(profiles, current_index)
       THEN UNCHANGED <<storeVars, uiRunning, worker, threads>>
       ELSE LET prof == _gather_form(profiles, current_index, form)
                ps1 == SetSlot(profiles, current_index % Len(profiles), prof)
            IN  /\ profiles' = ps1
                /\ file' = save_profiles(ps1)
                /\ IF ~CAMOUFOX_OK
                   THEN UNCHANGED <<uiRunning, worker, threads>>
                   ELSE /\ FreeIds(threads) # {}
                        /\ worker' = NewId(threads)
                        /\ threads' = Started(threads, NewId(threads),
                                              NewWorker(prof, LaunchSize(prof, screen)))
                        /\ uiRunning' = TRUE
    /\ UNCHANGED <<CAMOUFOX_OK, call, editVars, inbox>>

\* Click on Launch.
Launch(screen) ==
    /\ ~uiRunning
    /\ IF AlreadyRunning
       THEN UNCHANGED <<storeVars, uiRunning, worker, threads>>
       ELSE IF current_index = -1 \/ ~IndexOk(profiles, current_index)
       THEN UNCHANGED <<storeVars, uiRunning, worker, threads>>
       ELSE LET prof == _gather_form(profiles, current_index, form)
                ps1 == SetSlot(profiles, current_index, prof)
            IN  /\ profiles' = ps1
                /\ file' = save_profiles(ps1)
                /\ IF ~CAMOUFOX_OK
                   THEN UNCHANGED <<uiRunning, worker, threads>>
                   ELSE /\ FreeIds(threads) # {}
                        /\ worker' = NewId(threads)
                        /\ threads' = Started(threads, NewId(threads),
                                              NewWorker(prof, LaunchSize(prof, screen)))
                        /\ uiRunning' = TRUE
    /\ UNCHANGED <<CAMOUFOX_OK, call, editVars, inbox>>

\* Click on Stop (enabled while running); wait(5000) returns when the thread
\* has ended or the time is up, so any number of worker steps may follow.
Stop ==
    /\ uiRunning
    /\ IF WorkerBusy
       THEN threads' = [threads EXCEPT ![worker] = request_stop(@)]
       ELSE UNCHANGED threads
    /\ UNCHANGED <<CAMOUFOX_OK, call, storeVars, editVars, uiRunning, worker, inbox>>

\* The UI thread runs the slot of the oldest queued signal: the lambdas of
\* lines 379-380 (which only display the text) or _on_stopped.
Deliver ==
    /\ inbox # <<>>
    /\ uiRunning' = IF Head(inbox).sig = "stopped" THEN FALSE ELSE uiRunning
    /\ inbox' = Tail(inbox)
    /\ UNCHANGED <<CAMOUFOX_OK, call, storeVars, editVars, worker, threads>>

\* -------------------------------------------------------------- the system
File(c) == [exists |-> TRUE, valid |-> TRUE, content |-> c]

\* profiles.json as the program may find it at startup.
InitialFiles ==
    {NoFile, File(<<>>), File(<<[name |-> JStr(<<"Home">>)]>>)}

\* What the user may type into the form.
FormInputs ==
    {[BlankForm EXCEPT !.nameEdit = <<" ">>],
     [nameEdit |-> <<" ", "Work", " ">>, spinW |-> 1024, spinH |-> 768,
      fullscreenCheck |-> TRUE, proxyHostEdit |-> <<"proxy.example">>,
      proxyPortSpin |-> 8080, proxyUserEdit |-> <<"bob">>, proxyPassEdit |-> <<>>,
      geoipCheck |-> TRUE, storageEdit |-> <<"D:\\", "data">>]}

\* MainWindow.__init__
Init ==
    /\ CAMOUFOX_OK \in BOOLEAN
    /\ file \in {f \in InitialFiles : load_profiles(f).ok}
    /\ profiles = load_profiles(file).val
    /\ LET e == IF profiles # <<>>
                THEN setCurrentRow(profiles, Edit(-1, -1, BlankForm), 0)
                ELSE Edit(-1, -1, BlankForm)
       IN  /\ current_index = e.ci
           /\ listRow = e.row
           /\ form = e.form
    /\ uiRunning = FALSE
    /\ worker = 0
    /\ threads = <<>>
    /\ inbox = <<>>
    /\ call = NoCall

Next ==
    \/ \E r \in 0..MaxProfiles : SelectProfile(r)
    \/ \E f \in FormInputs : EditForm(f)
    \/ \E seen \in -1..MaxProfiles : NewProfile(seen)
    \/ \E yes \in BOOLEAN, seen \in -1..MaxProfiles : DeleteProfile(yes, seen)
    \/ \E seen \in -1..MaxProfiles : SaveChanges(seen)
    \/ \E screen \in Screens : Launch(screen)
    \/ Stop
    \/ Deliver
    \/ \E i \in 1..MaxThreads : WorkerStep(i)

Spec == Init /\ [][Next]_vars

\* The worker thread is scheduled and every library call returns; nothing
\* obliges a call to raise.
Fairness == \A i \in 1..MaxThreads : WF_vars(WorkerProgress(i))
LiveSpec == Spec /\ Fairness

\* ------------------------------------------- the module's functions, called
\* One call of a function of the module: `arg` is what it is given, `ret` what
\* it returns, `src` the value a chained call started from, `prev` the file
\* as save_profiles found it.
Call(fn, arg) ==
    [fn |-> fn, pc |-> "call", arg |-> arg, ret |-> JNull, src |-> None, prev |-> NoFile]

\* ProxyConfig values.
ProxyConfigs ==
    {[host |-> JStr(h), port |-> n, username |-> JStr(u), password |-> JStr(pw)] :
        h \in {<<>>, <<"proxy.example">>}, n \in {0, 8080},
        u \in {<<>>, <<"bob">>}, pw \in {<<>>, <<"s3cret">>}}

\* Profile values, as the dataclass allows them (also with an empty
\* persistent_dir, which Profile() has).
ProfileValues ==
    {[name |-> JStr(nm), viewport_width |-> w, viewport_height |-> DefaultHeight,
      fullscreen |-> fs, persistent_dir |-> JStr(pd), use_geoip |-> geo, proxy |-> px] :
        nm \in {<<>>, <<"Work">>}, w \in {DefaultWidth, 0}, fs \in BOOLEAN,
        pd \in {<<>>, <<"D:\\", "data">>}, geo \in BOOLEAN,
        px \in {DefaultProxy,
                [host |-> JStr(<<"proxy.example">>), port |-> 8080,
                 username |-> JStr(<<"bob">>), password |-> JStr(<<"s3cret">>)]}}

\* Records a profiles.json written by hand or by another version may hold.
Records ==
    {[name |-> JStr(<<"Home">>)],
     [name |-> JStr(<<"Home">>), proxy |-> JStr(<<"none">>)],
     [name |-> JStr(<<"Home">>), proxy |-> JNull],
     [name |-> JStr(<<"Home">>), proxy |-> JDict([host |-> JStr(<<"proxy.example">>),
                                                   port |-> JStr(<<"8", "0">>)])],
     [name |-> JStr(<<"Home">>), proxy |-> JDict([host |-> JStr(<<"proxy.example">>),
                                                   port |-> JNull])],
     [name |-> JStr(<<"Home">>), proxy |-> JDict([host |-> JStr(<<"proxy.example">>),
                                                   port |-> JStr(<<"abc">>)])],
     [name |-> JStr(<<"Home">>), viewport_width |-> JStr(<<"6", "4", "0">>),
      fullscreen |-> JStr(<<"no">>)]}

\* The two profiles the lists given to save_profiles are made of.
SavedProfile(nm) ==
    [DefaultProfile EXCEPT !.name = JStr(nm), !.persistent_dir = JStr(PathJoin(StorageRoot, nm))]
RECURSIVE ListsOf(_, _)
ListsOf(S, n) ==
    IF n = 0 THEN {<<>>}
    ELSE ListsOf(S, n - 1) \cup {Append(l, x) : l \in ListsOf(S, n - 1), x \in S}
SaveLists == ListsOf({SavedProfile(<<"Home">>), SavedProfile(<<"Work">>)}, MaxProfiles)

\* A text that json.load rejects, holding the records in c.
BadFile(c) == [exists |-> TRUE, valid |-> FALSE, content |-> c]

\* profiles.json as load_profiles may find it.
LoadFiles ==
    {NoFile, File(<<>>), BadFile(<<>>), BadFile(<<to_dict(SavedProfile(<<"Home">>))>>)}
        \cup {File(<<r>>) : r \in Records}
        \cup {File(<<to_dict(SavedProfile(<<"Home">>)), r>>) : r \in Records}

\* profiles.json as save_profiles may find it.
SaveFiles == {NoFile, File(<<>>), File(<<to_dict(SavedProfile(<<"Home">>))>>)}

CallReturns(r) == call' = [call EXCEPT !.pc = "done", !.ret = r]

\* px.to_proxy_dict()
Call_to_proxy_dict ==
    /\ call.fn = "to_proxy_dict" /\ call.pc = "call"
    /\ CallReturns(to_proxy_dict(call.arg))
    /\ UNCHANGED <<CAMOUFOX_OK, storeVars, editVars, uiRunning, workVars>>

\* p.to_dict()
Call_to_dict ==
    /\ call.fn = "to_dict" /\ call.pc = "call"
    /\ CallReturns(to_dict(call.arg))
    /\ UNCHANGED <<CAMOUFOX_OK, storeVars, editVars, uiRunning, workVars>>

\* The dict to_dict returned is handed to Profile.from_dict.
Call_from_dict_of_to_dict ==
    /\ call.fn = "to_dict" /\ call.pc = "done"
    /\ call' = [Call("from_dict", call.ret) EXCEPT !.src = Some(call.arg)]
    /\ UNCHANGED <<CAMOUFOX_OK, storeVars, editVars, uiRunning, workVars>>

\* Profile.from_dict(d)
Call_from_dict ==
    /\ call.fn = "from_dict" /\ call.pc = "call"
    /\ CallReturns(from_dict(call.arg))
    /\ UNCHANGED <<CAMOUFOX_OK, storeVars, editVars, uiRunning, workVars>>

\* load_profiles()
Call_load_profiles ==
    /\ call.fn = "load_profiles" /\ call.pc = "call"
    /\ CallReturns(load_profiles(file))
    /\ UNCHANGED <<CAMOUFOX_OK, storeVars, editVars, uiRunning, workVars>>

\* save_profiles, line 92: open(PROFILES_FILE, "w") creates the file or cuts
\* it to length zero.
SaveOpen ==
    /\ call.fn = "save_profiles" /\ call.pc = "call"
    /\ call' = [call EXCEPT !.pc = "write", !.prev = file]
    /\ file' = BadFile(<<>>)
    /\ UNCHANGED <<CAMOUFOX_OK, profiles, editVars, uiRunning, workVars>>

\* save_profiles, line 93: json.dump writes the text piece by piece; a full
\* buffer is flushed to the file, so the file may hold any number of the
\* records before it is closed.
SaveFlush ==
    /\ call.fn = "save_profiles" /\ call.pc = "write"
    /\ Len(file.content) < Len(call.arg)
    /\ file' = BadFile(Append(file.content, to_dict(call.arg[Len(file.content) + 1])))
    /\ UNCHANGED <<CAMOUFOX_OK, call, profiles, editVars, uiRunning, workVars>>

\* save_profiles, the end of the with block: the rest is flushed and the
\* file closed.
SaveClose ==
    /\ call.fn = "save_profiles" /\ call.pc = "write"
    /\ file' = save_profiles(call.arg)
    /\ call' = [call EXCEPT !.pc = "done"]
    /\ UNCHANGED <<CAMOUFOX_OK, profiles, editVars, uiRunning, workVars>>

\* The module is imported, no window is constructed; one function is called.
CallInit ==
    /\ CAMOUFOX_OK \in BOOLEAN
    /\ \/ \E px \in ProxyConfigs : call = Call("to_proxy_dict", px) /\ file = NoFile
       \/ \E p \in ProfileValues : call = Call("to_dict", p) /\ file = NoFile
       \/ \E d \in Records : call = Call("from_dict", d) /\ file = NoFile
       \/ \E f \in LoadFiles : call = Call("load_profiles", <<>>) /\ file = f
       \/ \E ps \in SaveLists, f \in SaveFiles : call = Call("save_profiles", ps) /\ file = f
    /\ profiles = <<>>
    /\ current_index = -1
    /\ listRow = -1
    /\ form = BlankForm
    /\ uiRunning = FALSE
    /\ worker = 0
    /\ threads = <<>>
    /\ inbox = <<>>

CallNext ==
    \/ Call_to_proxy_dict
    \/ Call_to_dict
    \/ Call_from_dict_of_to_dict
    \/ Call_from_dict
    \/ Call_load_profiles
    \/ SaveOpen
    \/ SaveFlush
    \/ SaveClose

CallSpec == CallInit /\ [][CallNext]_vars

\* ------------------------------------------------------------------ claims
SigsOf(w) == [k \in 1..Len(w.log) |-> w.log[k].sig]
Count(w, sig) == Cardinality({k \in 1..Len(w.log) : w.log[k].sig = sig})
Has(w, tag) == \E k \in 1..Len(w.faults) : w.faults[k] = tag
Emitted(w, sig, text) == \E k \in 1..Len(w.log) : w.log[k] = Signal(sig, text)

\* C1: every run() that has returned has emitted stopped exactly once, and a
\* run() that has not returned yet has not emitted it; this on every path
\* (stop request, failed start, exception while idling, failed teardown).
C1_StoppedExactlyOnce ==
    \A i \in DOMAIN threads :
        Count(threads[i], "stopped") = IF threads[i].pc = "returned" THEN 1 ELSE 0

\* A run that started, failed while idling and failed to close has returned.
C1_Witness ==
    \E i \in DOMAIN threads :
        /\ threads[i].pc = "returned"
        /\ SigsOf(threads[i]) = <<"started_ok", "error", "error", "stopped">>

\* At most one thread is alive, and it is the one MainWindow.worker refers to.
C2_OneWorker == Cardinality(DOMAIN threads) <= 1 /\ DOMAIN threads \subseteq {worker}

\* C2: at most one worker thread is alive in every state, it is the one
\* MainWindow.worker refers to, and a launch requested while it is alive
\* starts no thread and leaves the handle, the threads and the signal queue as
\* they are (nothing is kept for later).
C2_SingleSession ==
    /\ C2_OneWorker
    /\ [][/\ C2_OneWorker'
          /\ (WorkerBusy /\ \E screen \in Screens : Launch(screen))
                => UNCHANGED <<worker, threads, inbox>>]_vars

\* The Launch button is enabled again while the thread of the last session
\* has not ended yet, with a profile selected.
C2_Witness ==
    /\ ~uiRunning
    /\ WorkerBusy
    /\ current_index # -1
    /\ threads[worker].pc = "returned"

\* C3: in the signals one worker has emitted, stopped comes last, and it comes
\* after a started_ok or an error of that worker.
C3_StoppedLast ==
    \A i \in DOMAIN threads :
        \A k \in 1..Len(threads[i].log) :
            threads[i].log[k].sig = "stopped" =>
                /\ k = Len(threads[i].log)
                /\ \E j \in 1..(k - 1) : threads[i].log[j].sig \in {"started_ok", "error"}

C3_Witness ==
    \E i \in DOMAIN threads : SigsOf(threads[i]) = <<"started_ok", "error", "stopped">>

\* C4: when the library's initialisation raised, the worker's first signal is
\* the error carrying the exception's text, it never emits started_ok, it
\* holds no session, it is on its way out (never in page setup or idling), and
\* the initialisation was called once.
C4_StartupFailure ==
    \A i \in DOMAIN threads :
        LET w == threads[i]
        IN  /\ w.initCalls <= 1
            /\ Has(w, "init") =>
                  /\ w.log # <<>>
                  /\ w.log[1] = Signal("error", Msg("Failed to start Camoufox:", InitError))
                  /\ Count(w, "started_ok") = 0
                  /\ ~w.ctx
                  /\ w.pc \in {"finally", "stopping", "returned"}
                  /\ w.initCalls = 1

C4_Witness ==
    \E i \in DOMAIN threads :
        /\ Has(threads[i], "init")
        /\ threads[i].pc = "returned"
        /\ SigsOf(threads[i]) = <<"error", "stopped">>

\* C5 as stated: once the finally clause is over, every error raised while
\* closing (by close() or by __exit__) has been reported by an error signal,
\* and a run that has returned has emitted stopped after it.
StopErrorReported(w) ==
    \E k \in 1..Len(w.log) :
        w.log[k].sig = "error" /\ w.log[k].text.msg = "Error while stopping session:"

C5_Original ==
    \A i \in DOMAIN threads :
        LET w == threads[i]
        IN  (w.pc \in {"stopping", "returned"} /\ (Has(w, "close") \/ Has(w, "exit")))
                => /\ StopErrorReported(w)
                   /\ w.pc = "returned" => w.log[Len(w.log)].sig = "stopped"

\* C5 amended: an error raised by close() is reported by an error signal with
\* its text; an error raised by __exit__ is swallowed and reported by no
\* signal; either way the run emits stopped last.
C5_TeardownError ==
    \A i \in DOMAIN threads :
        LET w == threads[i]
        IN  /\ Has(w, "close") <=> Emitted(w, "error",
                                           Msg("Error while stopping session:", CloseError))
            /\ Has(w, "exit") => ~StopErrorReported(w)
            /\ (w.pc = "returned" /\ (Has(w, "close") \/ Has(w, "exit")))
                  => /\ w.log[Len(w.log)].sig = "stopped"
                     /\ Count(w, "stopped") = 1

\* A run has returned whose close() raised, after a clean session.
C5_Witness ==
    \E i \in DOMAIN threads :
        /\ threads[i].pc = "returned"
        /\ threads[i].faults = <<"close">>
        /\ SigsOf(threads[i]) = <<"started_ok", "error", "stopped">>

\* C6: a worker whose stop flag is set while its thread is alive reaches the
\* end of run(), where stopped has been emitted - also when the flag was set
\* before the worker was idling.
C6_StopLeadsToStopped ==
    \A i \in 1..MaxThreads :
        (i \in DOMAIN threads /\ threads[i].stop)
            ~> (i \in DOMAIN threads /\ threads[i].pc = "returned"
                /\ Count(threads[i], "stopped") = 1)

\* The stop request has arrived before the worker began to set up.
C6_Witness ==
    \E i \in DOMAIN threads : threads[i].stop /\ threads[i].pc = "start"

\* C7: a step that changes the list or the file leaves the file holding the
\* serialization of the list, element by element, and once the file holds it
\* no step makes the two differ.
C7_FileFollowsList ==
    [][(profiles' # profiles \/ file' # file \/ file = save_profiles(profiles))
          => /\ file'.exists
             /\ Len(file'.content) = Len(profiles')
             /\ \A k \in 1..Len(profiles') : file'.content[k] = to_dict(profiles'[k])]_vars

\* Two profiles, the second one created by New, are in the list and in the file.
C7_Witness ==
    /\ Len(profiles) = 2
    /\ profiles[2].name = JStr(<<"Profile", " ", "2">>)
    /\ file = File(<<to_dict(profiles[1]), to_dict(profiles[2])>>)

\* Every record of the old list is in the new one with its fields unchanged,
\* or is the one record removed.
RecordsKept(old, new) ==
    \/ new = old
    \/ Len(new) = Len(old) + 1 /\ SubSeq(new, 1, Len(old)) = old
    \/ \E r \in 1..Len(old) :
          /\ Len(new) = Len(old) - 1
          /\ \A k \in 1..Len(new) : new[k] = IF k < r THEN old[k] ELSE old[k + 1]

StoreKept ==
    /\ RecordsKept(profiles, profiles')
    /\ RecordsKept(load_profiles(file).val, load_profiles(file').val)

SaveStep == \E seen \in -1..MaxProfiles : SaveChanges(seen)
LaunchStep == \E screen \in Screens : Launch(screen)

\* C8 as stated: only a save step changes the fields of a profile that is
\* already in the list or in the file.
C8_Original == [][~SaveStep => StoreKept]_vars

\* C8 amended: only a save step and a launch step (which stores the form in
\* the selected slot before starting the session) change the fields of a
\* profile that is already in the list or in the file; select, new, delete,
\* stop, signal delivery and the worker's steps change none.
C8_OnlySaveAndLaunch == [][~(SaveStep \/ LaunchStep) => StoreKept]_vars

\* A profile was created while the loaded one kept its fields.
C8_Witness ==
    /\ Len(profiles) = 2
    /\ profiles[1] = from_dict([name |-> JStr(<<"Home">>)]).val
    /\ profiles[2].name = JStr(<<"Profile", " ", "2">>)
    /\ load_profiles(file).val = profiles

\* The profile the form's values stand for: the texts without surrounding
\* blanks, a blank name read as "Profile", a blank storage directory read as
\* C:\<name>.
FormProfile(f) ==
    LET name == IF Strip(f.nameEdit) = <<>> THEN <<"Profile">> ELSE Strip(f.nameEdit)
    IN  [name |-> JStr(name),
         viewport_width |-> f.spinW,
         viewport_height |-> f.spinH,
         fullscreen |-> f.fullscreenCheck,
         persistent_dir |-> JStr(IF Strip(f.storageEdit) = <<>> THEN <<"C:\\">> \o name
                                 ELSE Strip(f.storageEdit)),
         use_geoip |-> f.geoipCheck,
         proxy |-> [host |-> JStr(Strip(f.proxyHostEdit)), port |-> f.proxyPortSpin,
                    username |-> JStr(Strip(f.proxyUserEdit)),
                    password |-> JStr(Strip(f.proxyPassEdit))]]

\* The profile New creates as the n-th of the list.
FreshProfile(n) ==
    [name |-> JStr(<<"Profile", " ">> \o StrOfInt(n)),
     viewport_width |-> 1280, viewport_height |-> 800, fullscreen |-> FALSE,
     persistent_dir |-> JStr(<<"C:\\", "Profile", " ">> \o StrOfInt(n)),
     use_geoip |-> FALSE,
     proxy |-> [host |-> JStr(<<>>), port |-> 0, username |-> JStr(<<>>),
                password |-> JStr(<<>>)]]

\* The list keeps its length, the slot at current_index holds the form's
\* values, every other slot is as before.
SlotOverwritten ==
    /\ Len(profiles') = Len(profiles)
    /\ \A k \in 1..Len(profiles) : k # current_index + 1 => profiles'[k] = profiles[k]
    /\ \E k \in 1..Len(profiles') :
          /\ current_index \in {-1, k - 1}
          /\ profiles'[k] = FormProfile(form)

\* C9 as stated: every save step overwrites one slot with the form's values
\* and changes nothing else of the list, also with current_index = -1.
C9_Original == [][SaveStep => SlotOverwritten]_vars

\* C9 amended: a save step with a profile selected overwrites the slot at
\* current_index with the form's values, keeps the list's length and every
\* other slot; a save step with no profile selected (current_index = -1)
\* stores nothing of the form: it appends a new default profile "Profile N",
\* as New does.
C9_SaveOverwritesSlot ==
    [][SaveStep =>
          IF current_index = -1
          THEN profiles' = Append(profiles, FreshProfile(Len(profiles) + 1))
          ELSE /\ current_index \in 0..(Len(profiles) - 1)
               /\ SlotOverwritten]_vars

\* The second of two profiles is selected and holds what was typed as
\* " Work " with a proxy; the first is the loaded one.
C9_Witness ==
    /\ Len(profiles) = 2
    /\ current_index = 1
    /\ profiles[1] = from_dict([name |-> JStr(<<"Home">>)]).val
    /\ profiles[2].name = JStr(<<"Work">>)
    /\ profiles[2].proxy.port = 8080
    /\ file = save_profiles(profiles)

\* What the form shows when it is cleared.
ClearedForm ==
    [nameEdit |-> <<>>, spinW |-> 1280, spinH |-> 800, fullscreenCheck |-> FALSE,
     proxyHostEdit |-> <<>>, proxyPortSpin |-> 0, proxyUserEdit |-> <<>>,
     proxyPassEdit |-> <<>>, geoipCheck |-> FALSE, storageEdit |-> <<>>]

DeleteStep == \E seen \in -1..MaxProfiles : DeleteProfile(TRUE, seen)

\* C10: a confirmed delete with row r selected leaves the list without its
\* element r, the others in their order, the form cleared to the defaults
\* and nothing selected.
C10_DeleteSelected ==
    [][(DeleteStep /\ listRow >= 0) =>
          /\ listRow = current_index
          /\ Len(profiles') = Len(profiles) - 1
          /\ \A k \in 1..Len(profiles') :
                profiles'[k] = IF k <= listRow THEN profiles[k] ELSE profiles[k + 1]
          /\ form' = ClearedForm
          /\ current_index' = -1
          /\ listRow' = -1]_vars

\* The first of two profiles was deleted: "Profile 2" is alone in the list,
\* nothing is selected and the form is cleared.
C10_Witness ==
    /\ Len(profiles) = 1
    /\ profiles[1].name = JStr(<<"Profile", " ", "2">>)
    /\ current_index = -1
    /\ listRow = -1
    /\ form = ClearedForm
    /\ file = save_profiles(profiles)

\* A click on Delete answered No, and a click on Delete with no row selected.
DeclinedStep == \E seen \in -1..MaxProfiles : DeleteProfile(FALSE, seen)
NoRowStep ==
    listRow < 0 /\ \E yes \in BOOLEAN, seen \in -1..MaxProfiles : DeleteProfile(yes, seen)

\* C11: a click on Delete whose question is answered No, or that finds no row
\* selected, leaves the list, the file, current_index, the selected row and
\* the form as they are.
C11_DeleteNeedsYes ==
    [][(DeclinedStep \/ NoRowStep)
          => UNCHANGED <<profiles, file, current_index, listRow, form>>]_vars

\* Delete is enabled with the second of two profiles selected and unsaved
\* edits in the form: the state a declined delete starts from and ends in.
C11_Witness ==
    /\ ~uiRunning
    /\ Len(profiles) = 2
    /\ listRow = 1
    /\ current_index = 1
    /\ form # _populate_form(_current(profiles, current_index))
    /\ file = save_profiles(profiles)

\* C12: to_proxy_dict() is None exactly when the host is empty or the port is
\* zero; otherwise it is a dict whose server is "http://{host}:{port}", that
\* holds username exactly when username is non-empty and password exactly
\* when password is non-empty, each with its value, and no other key.
C12_ProxyDict ==
    (call.fn = "to_proxy_dict" /\ call.pc = "done") =>
        LET px == call.arg
            r == call.ret
        IN  /\ r.t \in {"null", "dict"}
            /\ r.t = "null" <=> (px.host.v = <<>> \/ px.port = 0)
            /\ r.t = "dict" =>
                  /\ DOMAIN r.v \subseteq {"server", "username", "password"}
                  /\ "server" \in DOMAIN r.v
                  /\ px.port = 8080 =>
                        r.v.server = <<"http://">> \o px.host.v \o <<":", "8", "0", "8", "0">>
                  /\ "username" \in DOMAIN r.v <=> px.username.v # <<>>
                  /\ "password" \in DOMAIN r.v <=> px.password.v # <<>>
                  /\ "username" \in DOMAIN r.v => r.v.username = px.username.v
                  /\ "password" \in DOMAIN r.v => r.v.password = px.password.v

\* The call has returned a dict with a password and no username.
C12_Witness ==
    /\ call.fn = "to_proxy_dict"
    /\ call.pc = "done"
    /\ call.ret.t = "dict"
    /\ DOMAIN call.ret.v = {"server", "password"}
    /\ call.ret.v.server = <<"http://", "proxy.example", ":", "8", "0", "8", "0">>

\* C13: the size a worker is given is the screen's available geometry
\* (1920 x 1040) when its profile is fullscreen and the profile's viewport
\* otherwise, and the window it asks the library for is that size plus
\* (2, 88): (1282, 888) for a 1280 x 800 viewport, (1922, 1128) for
\* fullscreen.
C13_WindowSize ==
    \A i \in DOMAIN threads :
        LET w == threads[i]
            eff == IF w.profile.fullscreen THEN <<1920, 1040>>
                   ELSE <<w.profile.viewport_width, w.profile.viewport_height>>
        IN  /\ w.launch_size = eff
            /\ w.pc \in {"pages", "idle"} => DOMAIN w.opts # {}
            /\ DOMAIN w.opts # {} =>
                  /\ w.opts.window = <<eff[1] + 2, eff[2] + 88>>
                  /\ eff = <<1280, 800>> => w.opts.window = <<1282, 888>>
                  /\ w.profile.fullscreen => w.opts.window = <<1922, 1128>>

\* A fullscreen profile with a 1024 x 768 viewport is running in a window of
\* (1922, 1128).
C13_Witness ==
    \E i \in DOMAIN threads :
        /\ threads[i].pc = "idle"
        /\ threads[i].profile.fullscreen
        /\ threads[i].profile.viewport_width = 1024
        /\ threads[i].opts.window = <<1922, 1128>>

\* C14: Profile.from_dict(p.to_dict()) raises nothing and is p with every
\* field as it was, except that an empty persistent_dir has become C:\<name>.
C14_RoundTrip ==
    (call.fn = "from_dict" /\ call.pc = "done" /\ call.src.some) =>
        LET p == call.src.val
        IN  /\ call.ret.ok
            /\ call.ret.val =
                  [p EXCEPT !.persistent_dir =
                                IF p.persistent_dir.v = <<>> THEN JStr(<<"C:\\">> \o p.name.v)
                                ELSE p.persistent_dir]

\* A fullscreen profile "Work" with a proxy and no persistent_dir has come
\* back with C:\Work.
C14_Witness ==
    /\ call.fn = "from_dict"
    /\ call.pc = "done"
    /\ call.src.some
    /\ call.src.val.persistent_dir = JStr(<<>>)
    /\ call.src.val.fullscreen
    /\ call.ret.val.name = JStr(<<"Work">>)
    /\ call.ret.val.persistent_dir = JStr(<<"C:\\", "Work">>)
    /\ call.ret.val.proxy.port = 8080

\* The record's proxy is a dict whose port is a text that is not a number.
NonNumericPort(d) ==
    /\ "proxy" \in DOMAIN d
    /\ d.proxy.t = "dict"
    /\ "port" \in DOMAIN d.proxy.v
    /\ d.proxy.v.port.t = "str"
    /\ \E k \in 1..Len(d.proxy.v.port.v) : ~IsDigit(d.proxy.v.port.v[k])

\* C15: Profile.from_dict raises for no record of a file, whatever a field
\* holds; a proxy port that is not a number gives port 0, and a proxy that is
\* not an object gives ProxyConfig() with all its defaults.
C15_MalformedDefaults ==
    (call.fn = "from_dict" /\ call.pc = "done" /\ ~call.src.some) =>
        /\ call.ret.ok
        /\ NonNumericPort(call.arg) => call.ret.val.proxy.port = 0
        /\ ("proxy" \in DOMAIN call.arg /\ call.arg.proxy.t # "dict") =>
              call.ret.val.proxy =
                  [host |-> JStr(<<>>), port |-> 0, username |-> JStr(<<>>),
                   password |-> JStr(<<>>)]

\* What load_profiles does with a file that is there and is not valid JSON,
\* with no file, and with a valid one.
LoadOutcome ==
    /\ (file.exists /\ ~file.valid) => ~call.ret.ok
    /\ ~file.exists => (call.ret.ok /\ call.ret.val = <<>>)
    /\ (call.ret.ok /\ file.exists) => Len(call.ret.val) = Len(file.content)

\* C16 as stated: load_profiles raises for a file that is not valid JSON,
\* returns no shorter list than the file holds, and returns the empty list
\* for an absent file only.
C16_Original ==
    (call.fn = "load_profiles" /\ call.pc = "done") =>
        /\ LoadOutcome
        /\ (call.ret.ok /\ call.ret.val = <<>>) => ~file.exists

\* C16 amended: load_profiles raises for a file that is not valid JSON,
\* returns no shorter list than the file holds, and returns the empty list
\* only for an absent file and for a file that holds the empty array.
C16_LoadFailsOnBadFile ==
    (call.fn = "load_profiles" /\ call.pc = "done") =>
        /\ LoadOutcome
        /\ (call.ret.ok /\ call.ret.val = <<>>) =>
              (~file.exists \/ (file.valid /\ file.content = <<>>))

\* load_profiles has raised for a text that is cut short after one complete
\* record.
C16_Witness ==
    /\ call.fn = "load_profiles"
    /\ call.pc = "done"
    /\ file.exists /\ ~file.valid
    /\ Len(file.content) = 1
    /\ ~call.ret.ok

\* C17: from the moment save_profiles is called, whoever reads the file (or
\* finds it after a crash) sees the text it held before the call or the
\* complete serialization of the list being saved, nothing else.
C17_AtomicSave ==
    (call.fn = "save_profiles" /\ call.pc # "call") =>
        (file = call.prev \/ file = save_profiles(call.arg))

\* C18: a worker that holds a session (_ctx is not None) and has left the
\* finally clause - after a stop request, after a failure of the page setup,
\* after an exception while idling - has called close() on it, once, before
\* it emits stopped; a worker that holds no session never calls close().
C18_ClosedBeforeStopped ==
    \A i \in DOMAIN threads :
        LET w == threads[i]
        IN  /\ w.closeCalls <= 1
            /\ ~w.ctx => w.closeCalls = 0
            /\ (w.ctx /\ w.pc \in {"stopping", "returned"}) => w.closeCalls = 1
            /\ (w.ctx /\ Count(w, "stopped") > 0) => w.closeCalls = 1
            /\ w.closeCalls = 1 => Count(w, "stopped") = IF w.pc = "returned" THEN 1 ELSE 0

\* The page setup failed after the session was opened; the session has been
\* closed and stopped is about to be emitted.
C18_Witness ==
    \E i \in DOMAIN threads :
        /\ threads[i].ctx
        /\ threads[i].faults = <<"page">>
        /\ threads[i].pc = "stopping"
        /\ threads[i].closeCalls = 1

\* A session is active: the worker the window started has not emitted its
\* stopped signal yet, or the signal waits to be delivered to the window.
SessionActive ==
    /\ worker # 0
    /\ \/ worker \in DOMAIN threads /\ Count(threads[worker], "stopped") = 0
       \/ \E k \in 1..Len(inbox) : inbox[k].from = worker /\ inbox[k].sig = "stopped"

\* C19: while a session is active the editor is locked, no step - New, Save,
\* Delete, nor any step of a worker - changes the list or the file, and the
\* profile the running worker holds is the record of the list at
\* current_index; the steps of a worker never change the list or the file.
C19_StoreFrozen ==
    /\ [](SessionActive <=> uiRunning)
    /\ []((SessionActive /\ worker \in DOMAIN threads) =>
             /\ current_index \in 0..(Len(profiles) - 1)
             /\ threads[worker].profile = profiles[current_index + 1]
             /\ file = save_profiles(profiles))
    /\ [][/\ SessionActive => (profiles' = profiles /\ file' = file)
          /\ (\E i \in 1..MaxThreads : WorkerStep(i)) => (profiles' = profiles /\ file' = file)
         ]_vars

\* The worker idles on the second of two profiles, the one typed as " Work ".
C19_Witness ==
    /\ SessionActive
    /\ worker \in DOMAIN threads
    /\ threads[worker].pc = "idle"
    /\ Len(profiles) = 2
    /\ current_index = 1
    /\ threads[worker].profile.name = JStr(<<"Work">>)

\* A click on Launch that _launch turns down: a worker's thread is still
\* running, or no profile is selected.
RejectedLaunch == LaunchStep /\ (WorkerBusy \/ current_index = -1)

\* C20: a launch that is turned down because a worker is running or because
\* no profile is selected changes neither the list, nor the file, nor the
\* worker handle, nor any worker (its stop flag included), nor the running
\* state of the UI.
C20_RejectedLaunchNoOp ==
    [][RejectedLaunch => UNCHANGED <<profiles, file, worker, threads, uiRunning>>]_vars

\* Launch is enabled with nothing selected, one profile in the list and a
\* filled form: the state such a launch starts from and ends in.
C20_Witness ==
    /\ ~uiRunning
    /\ ~WorkerBusy
    /\ current_index = -1
    /\ Len(profiles) = 1
    /\ form.nameEdit = <<" ", "Work", " ">>

\* C21: in every state current_index is -1 or an index of the list,
\* 0 <= current_index < len(profiles); and a click on Save or on Launch leaves
\* every slot of the list other than the one at current_index as it was - with
\* current_index = -1 every slot, the last one included.
C21_IndexValid ==
    /\ [](current_index \in -1..(Len(profiles) - 1))
    /\ [][(SaveStep \/ LaunchStep) =>
             \A k \in 1..Len(profiles) :
                 k # current_index + 1 =>
                     (k <= Len(profiles') /\ profiles'[k] = profiles[k])]_vars

\* Two profiles are in the list, the second one saved from the form, and
\* nothing is selected.
C21_Witness ==
    /\ Len(profiles) = 2
    /\ current_index = -1
    /\ listRow = -1
    /\ profiles[2].name = JStr(<<"Work">>)
    /\ file = save_profiles(profiles)

====
